---------------------------- MODULE Spec2Model ----------------------------
(***************************************************************************)
(* RuchDB memory toolkit: size/alignment arithmetic (rmem/align.rs), the   *)
(* raw and the size-tagged ("ZMEM") allocation layers (rmem/alloc.rs), the *)
(* byte primitives (rmem/mem.rs) and the byte buffer RString               *)
(* (rtypes/rstring.rs).                                                    *)
(*                                                                         *)
(* The machine is the 16-bit target of the code: usize is two bytes, so    *)
(* size_of::<usize>() = align_of::<usize>() = 2 and usize arithmetic is    *)
(* modulo 2^16.  The whole range of the word then lies inside TLC's        *)
(* integers, and every overflow of the code is an overflow of the model.   *)
(* Memory is an array of byte cells per host block; a cell that was never  *)
(* written holds Indet.  A tagged block's header is stored in its first    *)
(* two cells, little endian, and is read back from them.                   *)
(***************************************************************************)
EXTENDS Integers, Sequences, FiniteSets, TLC

VARIABLES
    heap,             \* host blocks: address -> [live, size, bytes]
    status,           \* "running" | "aborted" | "panicked" | "ub"
    calls,            \* the host-allocator calls of the last operation
    handler,          \* layouts handed to handle_alloc_error (size only)
    overflow_checks,  \* the build: TRUE = debug (overflow panics), FALSE = release (wraps)
    zslot,            \* allocator client: tagged body pointers it holds
    rslot,            \* allocator client: raw handles [ptr, size] it holds
    strs,             \* buffer client: the RString values it holds
    list,             \* list client: the RList it holds, with the nodes behind it
    last,             \* the last operation: arguments, pre-state and result
    steps             \* number of operations performed

vars == <<heap, status, calls, handler, overflow_checks, zslot, rslot, strs, list, last, steps>>

----------------------------------------------------------------------------
(* Bounds of the model *)

NAddr == 3          \* host addresses (blocks that can be live at once)
MaxAlloc == 6       \* largest block the host grants; larger requests exhaust it
MaxReq == 4         \* largest "ordinary" size a client requests
MaxByte == 2        \* client data bytes are 1..MaxByte
MaxSteps == 3       \* operations per run of an allocator client
MaxStrSteps == 3    \* operations per run of the buffer client
MaxLen == 2         \* longest byte slice the buffer client passes in
MaxIdx == 2         \* largest "ordinary" index, count or capacity it passes in
MaxAlignArg == 16   \* sizes given to size_of_aligned: within this of 0 and of usize::MAX
MaxAlignExp == 3    \* alignments given to size_of_aligned: 2^0 .. 2^MaxAlignExp
MaxShortList == 4   \* length up to which the client of every list method grows its list
MaxListLen == 6     \* most nodes a list holds, and the length up to which it is grown

----------------------------------------------------------------------------
(* align.rs: the machine word and size_of_aligned *)

size_of_usize == 2
UsizeBits == 8 * size_of_usize
Modulus == 2 ^ UsizeBits
UsizeMax == Modulus - 1
BYTE_ALIGN_SIZE == 1
SYS_ALIGN_SIZE == size_of_usize

Wrap(x) == x % Modulus
Min(a, b) == IF a < b THEN a ELSE b
Max(a, b) == IF a < b THEN b ELSE a

RECURSIVE BitAndN(_, _, _)
BitAndN(a, b, k) ==
    IF k = 0 THEN 0
    ELSE (a % 2) * (b % 2) + 2 * BitAndN(a \div 2, b \div 2, k - 1)

BitAnd(a, b) == BitAndN(a, b, UsizeBits)
BitNot(a) == UsizeMax - a

\* (size + (align - 1)) & !(align - 1), as the release build computes it
size_of_aligned(size, align) == BitAnd(Wrap(size + (align - 1)), BitNot(align - 1))
size_of_sys_aligned(size) == size_of_aligned(size, SYS_ALIGN_SIZE)

----------------------------------------------------------------------------
(* Memory: pointers, cells, loads and stores (mem.rs) *)

Indet == -1
Addrs == 1 .. NAddr
Null == [b |-> 0, o |-> 0]
is_null(p) == p.b = 0
Ptr(b, o) == [b |-> b, o |-> o]
PtrOffset(p, d) == [b |-> p.b, o |-> p.o + d]

DeadBlock == [live |-> FALSE, size |-> 0, bytes |-> <<>>]
Fill(n, v) == [i \in 1 .. n |-> v]

\* the range [p, p + n) lies inside a live block
InBlock(h, p, n) ==
    /\ p.b \in Addrs
    /\ h[p.b].live
    /\ p.o >= 0
    /\ p.o + n <= h[p.b].size

\* the n cells at p; cells outside a live block read as Indet
LoadRange(h, p, n) ==
    [i \in 1 .. n |->
        IF InBlock(h, PtrOffset(p, i - 1), 1) THEN h[p.b].bytes[p.o + i] ELSE Indet]

Stop(m, st) == [m EXCEPT !.status = st]

\* write the n cells of seq at p; a write outside a live block is undefined
\* behaviour (heap corruption): the process state is lost
StoreRange(m, p, n, seq) ==
    IF n = 0 THEN m
    ELSE IF ~InBlock(m.heap, p, n) THEN Stop(m, "ub")
    ELSE [m EXCEPT !.heap[p.b].bytes =
            [i \in 1 .. Len(@) |-> IF i > p.o /\ i <= p.o + n THEN seq[i - p.o] ELSE @[i]]]

\* libc::memcpy(dst, src, count); src is the caller's slice
mem_copy(m, src, dst, count) == StoreRange(m, dst, count, src)
\* libc::memmove(dst, src, count): the source is read whole before the write
mem_move(m, srcp, dst, count) ==
    IF count > 0 /\ ~InBlock(m.heap, srcp, count) THEN Stop(m, "ub")
    ELSE StoreRange(m, dst, count, LoadRange(m.heap, srcp, count))
\* libc::memset(ptr, value, count)
mem_set(m, ptr, value, count) ==
    IF count > 0 /\ ~InBlock(m.heap, ptr, count) THEN Stop(m, "ub")
    ELSE StoreRange(m, ptr, count, Fill(count, value))

RECURSIVE mem_cmp_from(_, _, _, _)
mem_cmp_from(a, b, i, count) ==
    IF i > count THEN "Equal"
    ELSE IF a[i] < b[i] THEN "Less"
    ELSE IF a[i] > b[i] THEN "Greater"
    ELSE mem_cmp_from(a, b, i + 1, count)
\* libc::memcmp over the first count bytes
mem_cmp(a, b, count) == mem_cmp_from(a, b, 1, count)

\* a usize in memory: size_of_usize cells, little endian
WordBytes(v) == [i \in 1 .. size_of_usize |-> (v \div (256 ^ (i - 1))) % 256]
RECURSIVE WordValue(_, _)
WordValue(bs, i) ==
    IF i > Len(bs) THEN 0 ELSE bs[i] * (256 ^ (i - 1)) + WordValue(bs, i + 1)
\* *(p as *const usize): ok is FALSE when the read leaves the block or meets
\* a cell that was never written
LoadWord(h, p) ==
    LET bs == LoadRange(h, p, size_of_usize) IN
    IF InBlock(h, p, size_of_usize) /\ \A i \in 1 .. size_of_usize : bs[i] # Indet
    THEN [ok |-> TRUE, val |-> WordValue(bs, 1)]
    ELSE [ok |-> FALSE, val |-> 0]
\* *(p as *mut usize) = v
StoreWord(m, p, v) == StoreRange(m, p, size_of_usize, WordBytes(v))

----------------------------------------------------------------------------
(* The host allocator behind std::alloc::{alloc, alloc_zeroed, realloc,    *)
(* dealloc}.  An oracle o = [fail, move, trust] fixes what the host is free *)
(* to choose: to report exhaustion, to relocate a block on realloc, and -   *)
(* when the caller's old layout is not the block's - whether a relocating   *)
(* realloc copies by the layout it was told (GlobalAlloc's default realloc) *)
(* or by the size it tracks itself (libc realloc).                          *)

Oracle(f, mv, t) == [fail |-> f, move |-> mv, trust |-> t]
\* what the host can choose on an allocation, and on a reallocation
AllocOracles == {Oracle(f, FALSE, FALSE) : f \in BOOLEAN}
ReallocOracles == {Oracle(TRUE, FALSE, FALSE), Oracle(FALSE, FALSE, FALSE),
                   Oracle(FALSE, TRUE, FALSE), Oracle(FALSE, TRUE, TRUE)}

Ret(m, ptr, size) == [m |-> m, ptr |-> ptr, size |-> size]
\* one host call: the pointer and layout size it was given, the new size asked
\* for, the size the block really had, and the pointer the host answered
Log(m, fn, ptr, size, new, actual, res) ==
    [m EXCEPT !.calls = Append(@, [fn |-> fn, ptr |-> ptr, size |-> size,
                                   new |-> new, actual |-> actual, res |-> res])]

Fresh(h) ==
    IF \E a \in Addrs : ~h[a].live
    THEN CHOOSE a \in Addrs : ~h[a].live /\ \A c \in Addrs : c < a => h[c].live
    ELSE 0

\* std::alloc::alloc / alloc_zeroed.  A zero-size layout is undefined
\* behaviour: the host may answer null or hand out an empty block.
HostAlloc(m, size, zeroed, o) ==
    LET fn == IF zeroed THEN "alloc_zeroed" ELSE "alloc"
        a == Fresh(m.heap)
    IN  IF o.fail \/ size > MaxAlloc \/ a = 0
        THEN Ret(Log(m, fn, Null, size, size, size, Null), Null, 0)
        ELSE Ret([Log(m, fn, Null, size, size, size, Ptr(a, 0)) EXCEPT !.heap[a] =
                    [live |-> TRUE, size |-> size,
                     bytes |-> Fill(size, IF zeroed THEN 0 ELSE Indet)]],
                 Ptr(a, 0), size)

\* std::alloc::realloc(ptr, old_layout, new_size)
HostRealloc(m, ptr, old_size, new_size, o) ==
    IF ~InBlock(m.heap, ptr, 0) \/ ptr.o # 0 THEN Ret(Stop(m, "ub"), Null, 0)
    ELSE
    LET blk == m.heap[ptr.b]
        a == Fresh(m.heap)
        moved == o.move /\ a # 0
        keep == IF moved /\ o.trust
                THEN Min(Min(old_size, blk.size), new_size)
                ELSE Min(blk.size, new_size)
        nb == [live |-> TRUE, size |-> new_size,
               bytes |-> [i \in 1 .. new_size |-> IF i <= keep THEN blk.bytes[i] ELSE Indet]]
        res == IF o.fail \/ new_size > MaxAlloc THEN Null
               ELSE IF moved THEN Ptr(a, 0) ELSE ptr
        m1 == Log(m, "realloc", ptr, old_size, new_size, blk.size, res)
    IN  IF is_null(res) THEN Ret(m1, Null, 0)
        ELSE IF moved
        THEN Ret([m1 EXCEPT !.heap = [@ EXCEPT ![ptr.b] = DeadBlock, ![a] = nb]],
                 res, new_size)
        ELSE Ret([m1 EXCEPT !.heap[ptr.b] = nb], res, new_size)

\* std::alloc::dealloc(ptr, layout); releasing what is not a live block is
\* undefined behaviour (double free, invalid free)
HostDealloc(m, ptr, size) ==
    IF ~InBlock(m.heap, ptr, 0) \/ ptr.o # 0 THEN Stop(m, "ub")
    ELSE [Log(m, "dealloc", ptr, size, 0, m.heap[ptr.b].size, Null)
            EXCEPT !.heap[ptr.b] = DeadBlock]

----------------------------------------------------------------------------
(* alloc.rs: the raw layer.  A Layout is (size, align); every layout of    *)
(* these functions is layout_of_bytes(size), whose align is                 *)
(* BYTE_ALIGN_SIZE, so a layout is carried as its size.                     *)

layout_of_bytes(size) == size

\* std::alloc::handle_alloc_error(layout): runs the hook and aborts; it never returns
handle_alloc_error(m, layout) ==
    Ret([m EXCEPT !.status = "aborted", !.handler = Append(@, layout)], Null, 0)

malloc_with_layout(m, layout, o) ==
    LET r == HostAlloc(m, layout, FALSE, o) IN
    IF is_null(r.ptr) THEN handle_alloc_error(r.m, layout)
    ELSE Ret(r.m, r.ptr, layout)

free_with_layout(m, ptr, layout) ==
    IF ~is_null(ptr) THEN HostDealloc(m, ptr, layout) ELSE m

calloc_with_layout(m, layout, o) ==
    LET r == HostAlloc(m, layout, TRUE, o) IN
    IF is_null(r.ptr) THEN handle_alloc_error(r.m, layout)
    ELSE Ret(r.m, r.ptr, layout)

\* faulty variant: the host is asked even when the size does not change
realloc_with_layout_always(m, ptr, old_layout, new_layout, o) ==
    LET r == IF is_null(ptr)
             THEN HostAlloc(m, new_layout, FALSE, o)
             ELSE HostRealloc(m, ptr, old_layout, new_layout, o)
    IN  IF r.m.status # "running" THEN r
        ELSE IF is_null(r.ptr) THEN handle_alloc_error(r.m, new_layout)
        ELSE Ret(r.m, r.ptr, new_layout)

\* faulty variant: the host's null is handed to the caller (no handle_alloc_error)
realloc_with_layout_unchecked(m, ptr, old_layout, new_layout, o) ==
    IF new_layout = old_layout THEN Ret(m, ptr, new_layout)
    ELSE LET r == IF is_null(ptr)
                  THEN HostAlloc(m, new_layout, FALSE, o)
                  ELSE HostRealloc(m, ptr, old_layout, new_layout, o)
         IN  IF r.m.status # "running" THEN r
             ELSE Ret(r.m, r.ptr, new_layout)

realloc_with_layout(m, ptr, old_layout, new_layout, o) ==
    IF new_layout = old_layout THEN Ret(m, ptr, new_layout)
    ELSE LET r == IF is_null(ptr)
                  THEN HostAlloc(m, new_layout, FALSE, o)
                  ELSE HostRealloc(m, ptr, old_layout, new_layout, o)
         IN  IF r.m.status # "running" THEN r
             ELSE IF is_null(r.ptr) THEN handle_alloc_error(r.m, new_layout)
             ELSE Ret(r.m, r.ptr, new_layout)

malloc(m, size, o) == malloc_with_layout(m, layout_of_bytes(size), o)
free(m, ptr, size) == free_with_layout(m, ptr, layout_of_bytes(size))
calloc(m, size, o) == calloc_with_layout(m, layout_of_bytes(size), o)
realloc(m, ptr, old_size, new_size, o) ==
    realloc_with_layout(m, ptr, layout_of_bytes(old_size), layout_of_bytes(new_size), o)

----------------------------------------------------------------------------
(* alloc.rs: the tagged ("ZMEM") layer *)

ZMEM_HEADER_SIZE == size_of_usize
ZMEM_ALIGN_SIZE == size_of_usize

\* a + b on usize: a debug build panics on overflow, a release build wraps
AddPanics(a, b) == overflow_checks /\ a + b > UsizeMax
Panic(m) == Ret(Stop(m, "panicked"), Null, 0)

\* the tail of zmalloc, zcalloc and zrealloc: write the header, return the body
TagBlock(r, bsize) ==
    IF r.m.status # "running" THEN r
    ELSE LET w == StoreWord(r.m, r.ptr, bsize) IN
         IF w.status # "running" THEN Ret(w, Null, 0)
         ELSE Ret(w, PtrOffset(r.ptr, ZMEM_HEADER_SIZE), bsize)

zmalloc(m, size, o) ==
    IF AddPanics(size, ZMEM_ALIGN_SIZE - 1) THEN Panic(m)
    ELSE LET bsize == size_of_aligned(size, ZMEM_ALIGN_SIZE) IN
         IF AddPanics(ZMEM_HEADER_SIZE, bsize) THEN Panic(m)
         ELSE TagBlock(malloc(m, Wrap(ZMEM_HEADER_SIZE + bsize), o), bsize)

zfree(m, ptr) ==
    IF ~is_null(ptr)
    THEN LET hp == PtrOffset(ptr, -ZMEM_HEADER_SIZE)
             w == LoadWord(m.heap, hp)
         IN  IF ~w.ok THEN Stop(m, "ub")
             ELSE IF AddPanics(ZMEM_HEADER_SIZE, w.val) THEN Stop(m, "panicked")
             ELSE free(m, hp, Wrap(ZMEM_HEADER_SIZE + w.val))
    ELSE m

zcalloc(m, size, o) ==
    IF AddPanics(size, ZMEM_ALIGN_SIZE - 1) THEN Panic(m)
    ELSE LET bsize == size_of_aligned(size, ZMEM_ALIGN_SIZE) IN
         IF AddPanics(ZMEM_HEADER_SIZE, bsize) THEN Panic(m)
         ELSE TagBlock(calloc(m, Wrap(ZMEM_HEADER_SIZE + bsize), o), bsize)

zrealloc(m, ptr, new_size, o) ==
    LET hp == PtrOffset(ptr, -ZMEM_HEADER_SIZE)
        w == LoadWord(m.heap, hp)
        old_ptr == IF is_null(ptr) THEN Null ELSE hp
        old_msize == IF is_null(ptr) THEN 0 ELSE w.val
    IN  IF ~is_null(ptr) /\ ~w.ok THEN Ret(Stop(m, "ub"), Null, 0)
        ELSE IF AddPanics(new_size, ZMEM_ALIGN_SIZE - 1) THEN Panic(m)
        ELSE LET new_bsize == size_of_aligned(new_size, ZMEM_ALIGN_SIZE) IN
             IF AddPanics(ZMEM_HEADER_SIZE, new_bsize) THEN Panic(m)
             ELSE TagBlock(realloc(m, old_ptr, old_msize,
                                   Wrap(ZMEM_HEADER_SIZE + new_bsize), o), new_bsize)

\* zmem_size_of; -1 stands for a header that cannot be read
zmem_size_of(h, ptr) ==
    IF is_null(ptr) THEN 0
    ELSE LET w == LoadWord(h, PtrOffset(ptr, -ZMEM_HEADER_SIZE)) IN
         IF w.ok THEN w.val ELSE -1

----------------------------------------------------------------------------
(* rstring.rs: RString { len, cap, data }.  An operation takes the machine  *)
(* m and the value s and yields both as they are when it returns.           *)

SR(m, s) == [m |-> m, s |-> s]
NoStr == [alive |-> FALSE, len |-> 0, cap |-> 0, data |-> Null]
RString(len, cap, data) == [alive |-> TRUE, len |-> len, cap |-> cap, data |-> data]

\* RString { len, cap, data } built from what zmalloc returned
RStringOver(r, n) ==
    IF r.m.status # "running" THEN SR(r.m, NoStr)
    ELSE SR(r.m, RString(n, r.size, r.ptr))

with_capacity(m, capacity, o) == RStringOver(zmalloc(m, capacity, o), 0)

new(m, o) == with_capacity(m, 0, o)
default(m, o) == new(m, o)

as_ptr(s) == s.data
len(s) == s.len
capacity(s) == s.cap
\* self.cap - self.len
avail(s) == Wrap(s.cap - s.len + Modulus)
availPanics(s) == overflow_checks /\ s.cap < s.len
is_empty(s) == len(s) = 0
is_full(s) == avail(s) = 0

drop(m, s) == zfree(m, as_ptr(s))

\* faulty variant: clear also forgets the capacity
clear_all(m, s) == SR(m, [s EXCEPT !.len = 0, !.cap = 0])

clear(m, s) == SR(m, [s EXCEPT !.len = 0])

\* faulty variant: the length is set to new_len unconditionally
truncate_always(m, s, new_len) == SR(m, [s EXCEPT !.len = new_len])

truncate(m, s, new_len) ==
    IF new_len < len(s) THEN SR(m, [s EXCEPT !.len = new_len]) ELSE SR(m, s)

\* faulty variant: the capacity is taken from zrealloc but the old pointer is kept
resize_assign_stale(s, r) ==
    IF r.m.status # "running" THEN SR(r.m, s)
    ELSE SR(r.m, [s EXCEPT !.cap = r.size])

\* (self.data, self.cap) = zrealloc(..)
resize_assign(s, r) ==
    IF r.m.status # "running" THEN SR(r.m, s)
    ELSE SR(r.m, [s EXCEPT !.data = r.ptr, !.cap = r.size])

resize(m, s, min_capacity, o) ==
    resize_assign(s, zrealloc(m, as_ptr(s), Max(len(s), min_capacity), o))

shrink_to(m, s, min_capacity, o) ==
    IF min_capacity < capacity(s) THEN resize(m, s, min_capacity, o) ELSE SR(m, s)

shrink_to_fit(m, s, o) ==
    IF availPanics(s) THEN SR(Stop(m, "panicked"), s)
    ELSE IF ~is_full(s) THEN resize(m, s, len(s), o) ELSE SR(m, s)

reserve(m, s, extra, o) ==
    IF availPanics(s) THEN SR(Stop(m, "panicked"), s)
    ELSE IF avail(s) < extra
    THEN IF AddPanics(len(s), extra) THEN SR(Stop(m, "panicked"), s)
         ELSE resize(m, s, Wrap(len(s) + extra), o)
    ELSE SR(m, s)

\* data is the byte slice behind the raw pointer; len its length
\* faulty variant: the source bytes are not copied into the new block
from_raw_data_nocopy(r, data, n) == r

\* from_raw_data after its zmalloc: mem_copy(data, ptr, len)
from_raw_data_copy(r, data, n) ==
    IF r.m.status # "running" THEN r
    ELSE SR(mem_copy(r.m, data, as_ptr(r.s), n), r.s)

from_raw_data(m, data, n, o) ==
    from_raw_data_copy(RStringOver(zmalloc(m, n, o), n), data, n)

\* faulty variant: the result shares the storage of the original
sub_rstr_shared(m, s, start, end, o) ==
    LET e == Min(len(s), end) IN
    IF start < e THEN SR(m, RString(e - start, capacity(s), as_ptr(s)))
    ELSE default(m, o)

\* faulty variant: end is not clamped to the length
sub_rstr_unclamped(m, s, start, end, o) ==
    IF start < end
    THEN IF ~InBlock(m.heap, PtrOffset(as_ptr(s), start), end - start)
         THEN SR(Stop(m, "ub"), NoStr)
         ELSE from_raw_data(m, LoadRange(m.heap, PtrOffset(as_ptr(s), start), end - start),
                            end - start, o)
    ELSE default(m, o)

sub_rstr(m, s, start, end, o) ==
    LET e == Min(len(s), end) IN
    IF start < e
    THEN IF ~InBlock(m.heap, PtrOffset(as_ptr(s), start), e - start)
         THEN SR(Stop(m, "ub"), NoStr)     \* mem_copy reads outside the block
         ELSE from_raw_data(m, LoadRange(m.heap, PtrOffset(as_ptr(s), start), e - start),
                            e - start, o)
    ELSE default(m, o)

lsub_rstr(m, s, end, o) == sub_rstr(m, s, 0, end, o)
rsub_rstr(m, s, start, o) == sub_rstr(m, s, start, len(s), o)

\* faulty variant: the length is set but the bytes are not shifted to offset 0
trim_unshifted(m, s, start, end) ==
    LET e == Min(len(s), end) IN
    IF start < e THEN SR(m, [s EXCEPT !.len = e - start]) ELSE SR(m, s)

trim(m, s, start, end) ==
    LET e == Min(len(s), end) IN
    IF start < e
    THEN SR(mem_move(m, PtrOffset(as_ptr(s), start), as_ptr(s), e - start),
            [s EXCEPT !.len = e - start])
    ELSE SR(m, s)

ltrim(m, s, start) == trim(m, s, start, len(s))

rtrim(m, s, end) ==
    IF end < len(s) THEN SR(m, [s EXCEPT !.len = end]) ELSE SR(m, s)

\* std::slice::from_raw_parts(self.as_ptr(), self.len())
as_bytes(h, s) == LoadRange(h, as_ptr(s), len(s))

\* A Vec<u8> is (len, buf): buf is its allocation, of which the first len
\* bytes are its elements.  Vec::with_capacity(n) has len 0 and n spare bytes.
VecWithCapacity(n) == [len |-> 0, buf |-> Fill(n, Indet)]
VecElems(v) == SubSeq(v.buf, 1, v.len)

\* to_bytes: the bytes are copied into the vector's spare capacity; the
\* vector's length is not set
to_bytes(h, s) ==
    LET bytes == VecWithCapacity(len(s)) IN
    [bytes EXCEPT !.buf = LoadRange(h, as_ptr(s), len(s))]

\* append_padding after its reserve
append_padding_set(r, value, count) ==
    IF r.m.status # "running" THEN r
    ELSE LET m2 == mem_set(r.m, PtrOffset(as_ptr(r.s), len(r.s)), value, count) IN
         IF m2.status # "running" THEN SR(m2, r.s)
         ELSE IF AddPanics(len(r.s), count) THEN SR(Stop(m2, "panicked"), r.s)
         ELSE SR(m2, [r.s EXCEPT !.len = Wrap(@ + count)])

append_padding(m, s, value, count, o) ==
    append_padding_set(reserve(m, s, count, o), value, count)

\* append_raw_data after its reserve
append_raw_data_copy(r, data, n) ==
    IF r.m.status # "running" THEN r
    ELSE LET m2 == mem_copy(r.m, data, PtrOffset(as_ptr(r.s), len(r.s)), n) IN
         IF m2.status # "running" THEN SR(m2, r.s)
         ELSE IF AddPanics(len(r.s), n) THEN SR(Stop(m2, "panicked"), r.s)
         ELSE SR(m2, [r.s EXCEPT !.len = Wrap(@ + n)])

append_raw_data(m, s, data, n, o) == append_raw_data_copy(reserve(m, s, n, o), data, n)

\* faulty variant: the buffer is not cleared before the append
copy_raw_data_noclear(m, s, data, n, o) == append_raw_data(m, s, data, n, o)

copy_raw_data(m, s, data, n, o) == append_raw_data(m, clear(m, s).s, data, n, o)

\* replace_raw_data after its resize: the copy into the gap-filled buffer
replace_raw_data_copy(m2, s, offset, data, n) ==
    IF m2.status # "running" THEN SR(m2, s)
    ELSE SR(mem_copy(m2, data, PtrOffset(as_ptr(s), offset), n),
            [s EXCEPT !.len = Max(@, Wrap(offset + n))])

\* replace_raw_data after its resize: the gap between len and offset is zeroed
replace_raw_data_fill(r, offset, data, n) ==
    IF r.m.status # "running" THEN r
    ELSE replace_raw_data_copy(
             IF len(r.s) < offset
             THEN mem_set(r.m, PtrOffset(as_ptr(r.s), len(r.s)), 0, offset - len(r.s))
             ELSE r.m,
             r.s, offset, data, n)

replace_raw_data(m, s, offset, data, n, o) ==
    IF AddPanics(offset, n) THEN SR(Stop(m, "panicked"), s)
    ELSE replace_raw_data_fill(resize(m, s, Wrap(offset + n), o), offset, data, n)

\* faulty variant: buffers of different capacity are never equal
eq_with_cap(h, s, other) ==
    /\ len(s) = len(other) /\ capacity(s) = capacity(other)
    /\ "Equal" = mem_cmp(as_bytes(h, s), as_bytes(h, other), len(s))

\* PartialEq::eq
eq(h, s, other) ==
    /\ len(s) = len(other)
    /\ "Equal" = mem_cmp(as_bytes(h, s), as_bytes(h, other), len(s))

\* Ord for usize
cmp_usize(a, b) == IF a < b THEN "Less" ELSE IF a > b THEN "Greater" ELSE "Equal"

\* faulty variant: the lengths are compared before the bytes
cmp_len_first(h, s, other) ==
    LET clen == Min(len(s), len(other))
        c == cmp_usize(len(s), len(other))
    IN  IF c = "Equal"
        THEN mem_cmp(LoadRange(h, as_ptr(s), clen), LoadRange(h, as_ptr(other), clen), clen)
        ELSE c

\* Ord::cmp
cmp(h, s, other) ==
    LET clen == Min(len(s), len(other))
        c == mem_cmp(LoadRange(h, as_ptr(s), clen), LoadRange(h, as_ptr(other), clen), clen)
    IN  IF c = "Equal" THEN cmp_usize(len(s), len(other)) ELSE c

----------------------------------------------------------------------------
(* rlist.rs: a doubly linked list of Rc<RefCell<Node>>.  A node is a slot   *)
(* of l.node; next is a strong reference, prev a weak one.  A node lives    *)
(* as long as a strong reference reaches it; a weak reference keeps its     *)
(* slot from being handed out again but does not keep the node.             *)

None == 0
NodeIds == 1 .. MaxListLen
Some(x) == <<x>>
NoNode == [used |-> FALSE, data |-> 0, prev |-> None, next |-> None]

\* RList::new
rlist_new == [node |-> [i \in NodeIds |-> NoNode], head |-> None, tail |-> None, len |-> 0]

\* result of a method: the list, the returned Option, and whether it panicked
LR(l, out, st) == [l |-> l, out |-> out, st |-> st]

\* the slot Rc::new hands out: one that holds no node
NewId(l) ==
    IF \E j \in NodeIds : ~l.node[j].used
    THEN CHOOSE i \in NodeIds : ~l.node[i].used /\ \A j \in NodeIds : ~l.node[j].used => i <= j
    ELSE None

\* Rc::new(RefCell::new(Node::new(data)))
Rc_new(l, id, data) ==
    [l EXCEPT !.node[id] = [used |-> TRUE, data |-> data, prev |-> None, next |-> None]]

\* Weak::upgrade
upgrade(l, w) == IF w # None /\ l.node[w].used THEN w ELSE None

\* Rc's drop at the end of a method: the nodes no strong reference reaches
\* (from head, from tail, through next) are gone.  A Weak to such a node
\* never upgrades again; every use of prev goes through upgrade, so the Weak
\* is recorded as None.
rc_drop(l) ==
    LET RECURSIVE strong(_, _)
        strong(id, fuel) ==
            IF id = None \/ fuel = 0 THEN {}
            ELSE {id} \cup strong(l.node[id].next, fuel - 1)
        keep == strong(l.head, MaxListLen) \cup strong(l.tail, MaxListLen)
    IN  [l EXCEPT !.node = [i \in NodeIds |->
            IF i \notin keep THEN NoNode
            ELSE IF l.node[i].prev \in keep THEN l.node[i]
            ELSE [l.node[i] EXCEPT !.prev = None]]]

\* The program never compares or shows the address of a node, so the nodes
\* are named by their place in the chain from head (then from tail, for a
\* node only tail reaches).
renumber(l) ==
    LET RECURSIVE chain(_, _)
        chain(id, fuel) ==
            IF id = None \/ fuel = 0 THEN <<>>
            ELSE <<id>> \o chain(l.node[id].next, fuel - 1)
        fromHead == chain(l.head, MaxListLen)
        fromTail == chain(l.tail, MaxListLen)
        order == fromHead \o SelectSeq(fromTail,
                     LAMBDA i : \A k \in 1 .. Len(fromHead) : fromHead[k] # i)
        name(id) == IF id = None THEN None ELSE CHOOSE k \in 1 .. Len(order) : order[k] = id
    IN  [node |-> [i \in NodeIds |->
                     IF i > Len(order) THEN NoNode
                     ELSE [l.node[order[i]] EXCEPT !.prev = name(@), !.next = name(@)]],
         head |-> name(l.head), tail |-> name(l.tail), len |-> l.len]

\* Node::append
Node_append(l, cur, id, data) ==
    LET w == Rc_new(l, id, data)
        next == l.node[cur].next
        a == IF next # None
             THEN [w EXCEPT !.node[id].next = next, !.node[next].prev = id]
             ELSE w
    IN  [a EXCEPT !.node[cur].next = id, !.node[id].prev = cur]

push_front_node(l, id, data) ==
    LET w == Rc_new(l, id, data)
        a == IF l.head # None
             THEN [w EXCEPT !.node[id].next = l.head, !.node[l.head].prev = id]
             ELSE [w EXCEPT !.tail = id]
    IN  [a EXCEPT !.head = id, !.len = Wrap(@ + 1)]

\* self.len -= 1 panics with overflow checks and wraps without
pop_front_node(l) ==
    IF l.head = None THEN LR(l, <<>>, "running")
    ELSE IF overflow_checks /\ l.len = 0 THEN LR(l, <<>>, "panicked")
    ELSE LET head == l.head
             next == l.node[head].next
             a == [l EXCEPT !.head = None, !.len = Wrap(@ + UsizeMax)]
             b == IF next # None
                  THEN [a EXCEPT !.node[next].prev = None, !.head = next]
                  ELSE [a EXCEPT !.tail = None]
         IN  LR([b EXCEPT !.node[head].next = None], Some(l.node[head].data), "running")

\* faulty variant: the new node does not point back at the old tail
push_back_node_unlinked(l, id, data) ==
    LET w == Rc_new(l, id, data)
        a == IF l.tail # None
             THEN [w EXCEPT !.node[l.tail].next = id]
             ELSE [w EXCEPT !.head = id]
    IN  [a EXCEPT !.tail = id, !.len = Wrap(@ + 1)]

push_back_node(l, id, data) ==
    LET w == Rc_new(l, id, data)
        a == IF l.tail # None
             THEN [w EXCEPT !.node[l.tail].next = id, !.node[id].prev = l.tail]
             ELSE [w EXCEPT !.head = id]
    IN  [a EXCEPT !.tail = id, !.len = Wrap(@ + 1)]

pop_back_node(l) ==
    IF l.tail = None THEN LR(l, <<>>, "running")
    ELSE IF overflow_checks /\ l.len = 0 THEN LR(l, <<>>, "panicked")
    ELSE LET tail == l.tail
             prev == upgrade(l, l.node[tail].prev)
             a == [l EXCEPT !.tail = None, !.len = Wrap(@ + UsizeMax)]
             b == IF prev # None
                  THEN [a EXCEPT !.node[prev].next = None, !.tail = prev]
                  ELSE [a EXCEPT !.head = None]
         IN  LR([b EXCEPT !.node[tail].prev = None], Some(l.node[tail].data), "running")

\* find_node: idx steps forward from head when idx <= len / 2, otherwise one
\* step back from tail for each element of idx .. len
find_node(l, idx) ==
    LET RECURSIVE forward(_, _)
        forward(cur, k) ==
            IF k = 0 \/ cur = None THEN cur ELSE forward(l.node[cur].next, k - 1)
        RECURSIVE backward(_, _)
        backward(cur, k) ==
            IF k = 0 \/ cur = None THEN cur
            ELSE backward(upgrade(l, l.node[cur].prev), k - 1)
        full == l.len
        half == full \div 2
    IN  IF idx <= half THEN forward(l.head, idx)
        ELSE backward(l.tail, IF idx < full THEN full - idx ELSE 0)

insert(l, id, idx, data) ==
    IF idx = 0 THEN push_front_node(l, id, data)
    ELSE IF idx < l.len
    THEN LET cur == find_node(l, idx - 1) IN
         IF cur # None
         THEN [Node_append(l, cur, id, data) EXCEPT !.len = Wrap(@ + 1)]
         ELSE l
    ELSE push_back_node(l, id, data)

\* iter().collect(): Iter::next until it returns None
to_vec(l) ==
    LET RECURSIVE collect(_, _)
        collect(head, n) ==
            IF n = 0 \/ head = None THEN <<>>
            ELSE <<l.node[head].data>> \o collect(l.node[head].next, n - 1)
    IN  collect(l.head, Min(l.len, MaxListLen + 1))

\* get: iter().nth(idx)
get(l, idx) ==
    IF idx >= l.len THEN <<>>
    ELSE IF idx < Len(to_vec(l)) THEN Some(to_vec(l)[idx + 1]) ELSE <<>>

insert_before(l, id, idx, data) == LR(insert(l, id, idx, data), <<>>, "running")

\* idx + 1 panics with overflow checks and wraps without
insert_after(l, id, idx, data) ==
    IF AddPanics(idx, 1) THEN LR(l, <<>>, "panicked")
    ELSE LR(insert(l, id, Wrap(idx + 1), data), <<>>, "running")

\* remove; self.len - 1 panics on an empty list with overflow checks and
\* wraps without
remove(l, idx) ==
    IF overflow_checks /\ l.len = 0 THEN LR(l, <<>>, "panicked")
    ELSE LET full == Wrap(l.len + UsizeMax) IN
         IF idx = 0 THEN pop_front_node(l)
         ELSE IF idx > full THEN LR(l, <<>>, "running")
         ELSE IF idx = full THEN pop_back_node(l)
         ELSE LET cur == find_node(l, idx) IN
              IF cur = None THEN LR(l, <<>>, "running")
              ELSE LET next == l.node[cur].next
                       prev == upgrade(l, l.node[cur].prev)
                   IN  IF prev # None /\ next # None
                       THEN LR([l EXCEPT !.node[prev].next = next, !.node[next].prev = prev],
                               Some(l.node[cur].data), "running")
                       ELSE LR(l, <<>>, "running")

\* range: the clamp of end, then iter().skip(start).take(end - start);
\* end - start panics with overflow checks and wraps without
range(l, start, end) ==
    IF l.len = 0 THEN LR(l, <<>>, "running")
    ELSE LET e == IF end >= l.len THEN l.len ELSE end
             n == Wrap(e - start + Modulus)
             v == to_vec(l)
         IN  IF overflow_checks /\ e < start THEN LR(l, <<>>, "panicked")
             ELSE IF start >= Len(v) THEN LR(l, <<>>, "running")
             ELSE LR(l, SubSeq(v, start + 1, Min(Len(v), start + n)), "running")

\* set: the node find_node returns gets the new value, its links are kept
set(l, idx, val) ==
    IF idx >= l.len THEN LR(l, <<>>, "running")
    ELSE LET cur == find_node(l, idx) IN
         IF cur = None THEN LR(l, <<>>, "running")
         ELSE LR([l EXCEPT !.node[cur].data = val], Some(l.node[cur].data), "running")

\* trim: pop_front for each of 0 .. start, pop_back for each of end .. len
\* (a pop on the emptied list changes nothing, so the loops stop there)
rlist_trim(l, start, end) ==
    LET RECURSIVE pops(_, _, _)
        pops(r, front, k) ==
            IF k = 0 \/ r.st # "running" THEN r
            ELSE IF (IF front THEN r.l.head ELSE r.l.tail) = None THEN r
            ELSE pops(IF front THEN pop_front_node(r.l) ELSE pop_back_node(r.l), front, k - 1)
        len0 == l.len
        e == IF end >= len0 THEN len0 ELSE end
        a == pops(LR(l, <<>>, "running"), TRUE, start)
        b == pops(a, FALSE, len0 - e)
    IN  LR(b.l, <<>>, b.st)

rlist_is_empty(l) == l.head = None

rlist_len(l) == l.len

----------------------------------------------------------------------------
(* The clients: programs that call the public functions.  Each keeps what   *)
(* it was given (tagged body pointers in zslot, one raw handle in rslot),   *)
(* and hands back only that.                                                *)

ZSlots == {1, 2}
StrSlots == {1, 2}
HugeSizes == (UsizeMax - 2 * size_of_usize + 1) .. UsizeMax
Sizes == (0 .. MaxReq) \cup HugeSizes

Cur == [heap |-> heap, status |-> status, calls |-> <<>>, handler |-> handler]
Commit(m) ==
    /\ heap' = m.heap
    /\ status' = m.status
    /\ calls' = m.calls
    /\ handler' = m.handler

NoOp == [op |-> "none", slot |-> 0, n |-> 0, old |-> 0, inp |-> Null, ptr |-> Null, size |-> 0]
Called(op, slot, n, old, inp, r) ==
    [op |-> op, slot |-> slot, n |-> n, old |-> old, inp |-> inp, ptr |-> r.ptr, size |-> r.size]

\* client data: byte i of pattern k
Pattern(k, n) == [i \in 1 .. n |-> 1 + ((i + k) % MaxByte)]

Running == status = "running" /\ steps < MaxSteps
Step == steps' = steps + 1 /\ UNCHANGED <<overflow_checks, list>>

\* the first empty slot, if any
FreeSlot(i) == is_null(zslot[i]) /\ \A j \in ZSlots : j < i => ~is_null(zslot[j])
\* what the caller holds after a call that returns a pointer
Keep(i, r) == IF r.m.status = "running" THEN [zslot EXCEPT ![i] = r.ptr] ELSE zslot
KeepRaw(r) == IF r.m.status = "running" THEN [ptr |-> r.ptr, size |-> r.size] ELSE rslot

ZMalloc(i, n, o) ==
    /\ Running /\ FreeSlot(i)
    /\ \E r \in {zmalloc(Cur, n, o)} :
        /\ Commit(r.m)
        /\ zslot' = Keep(i, r)
        /\ last' = Called("zmalloc", i, n, 0, Null, r)
    /\ Step /\ UNCHANGED <<rslot, strs>>

ZCalloc(i, n, o) ==
    /\ Running /\ FreeSlot(i)
    /\ \E r \in {zcalloc(Cur, n, o)} :
        /\ Commit(r.m)
        /\ zslot' = Keep(i, r)
        /\ last' = Called("zcalloc", i, n, 0, Null, r)
    /\ Step /\ UNCHANGED <<rslot, strs>>

ZRealloc(i, n, o) ==
    /\ Running
    /\ \E r \in {zrealloc(Cur, zslot[i], n, o)} :
        /\ Commit(r.m)
        /\ zslot' = Keep(i, r)
        /\ last' = Called("zrealloc", i, n, 0, zslot[i], r)
    /\ Step /\ UNCHANGED <<rslot, strs>>

ZFree(i) ==
    /\ Running
    /\ \E m \in {zfree(Cur, zslot[i])} :
        /\ Commit(m)
        /\ zslot' = [zslot EXCEPT ![i] = Null]
        /\ last' = Called("zfree", i, 0, 0, zslot[i], Ret(m, Null, 0))
    /\ Step /\ UNCHANGED <<rslot, strs>>

\* the client fills the body it was given, all zmem_size_of bytes of it
WriteBody(i, k) ==
    /\ Running /\ ~is_null(zslot[i])
    /\ zmem_size_of(heap, zslot[i]) > 0
    /\ \E n \in {zmem_size_of(heap, zslot[i])} :
       \E m \in {mem_copy(Cur, Pattern(k, n), zslot[i], n)} :
        /\ Commit(m)
        /\ last' = Called("write", i, n, 0, zslot[i], Ret(m, zslot[i], n))
    /\ Step /\ UNCHANGED <<zslot, rslot, strs>>

RMalloc(n, o) ==
    /\ Running /\ is_null(rslot.ptr)
    /\ \E r \in {malloc(Cur, n, o)} :
        /\ Commit(r.m)
        /\ rslot' = KeepRaw(r)
        /\ last' = Called("malloc", 0, n, 0, Null, r)
    /\ Step /\ UNCHANGED <<zslot, strs>>

RCalloc(n, o) ==
    /\ Running /\ is_null(rslot.ptr)
    /\ \E r \in {calloc(Cur, n, o)} :
        /\ Commit(r.m)
        /\ rslot' = KeepRaw(r)
        /\ last' = Called("calloc", 0, n, 0, Null, r)
    /\ Step /\ UNCHANGED <<zslot, strs>>

\* realloc of the handle held, with the size it was obtained with; of a null
\* pointer, with any old size
RRealloc(old, n, o) ==
    /\ Running
    /\ is_null(rslot.ptr) \/ old = rslot.size
    /\ \E r \in {realloc(Cur, rslot.ptr, old, n, o)} :
        /\ Commit(r.m)
        /\ rslot' = KeepRaw(r)
        /\ last' = Called("realloc", 0, n, old, rslot.ptr, r)
    /\ Step /\ UNCHANGED <<zslot, strs>>

RFree ==
    /\ Running
    /\ \E m \in {free(Cur, rslot.ptr, rslot.size)} :
        /\ Commit(m)
        /\ rslot' = [ptr |-> Null, size |-> 0]
        /\ last' = Called("free", 0, rslot.size, 0, rslot.ptr, Ret(m, Null, 0))
    /\ Step /\ UNCHANGED <<zslot, strs>>

Init ==
    /\ heap = [a \in Addrs |-> DeadBlock]
    /\ status = "running"
    /\ calls = <<>>
    /\ handler = <<>>
    /\ overflow_checks \in BOOLEAN
    /\ zslot = [i \in ZSlots |-> Null]
    /\ rslot = [ptr |-> Null, size |-> 0]
    /\ strs = [i \in StrSlots |-> NoStr]
    /\ list = rlist_new
    /\ last = NoOp
    /\ steps = 0

\* the client of the tagged layer
NextTagged ==
    \/ \E i \in ZSlots, n \in Sizes, o \in AllocOracles : ZMalloc(i, n, o)
    \/ \E i \in ZSlots, n \in Sizes, o \in AllocOracles : ZCalloc(i, n, o)
    \/ \E i \in ZSlots, n \in Sizes, o \in ReallocOracles : ZRealloc(i, n, o)
    \/ \E i \in ZSlots : ZFree(i)
    \/ \E i \in ZSlots, k \in 1 .. MaxByte : WriteBody(i, k)

SpecTagged == Init /\ [][NextTagged]_vars

\* the client of the raw layer
NextRaw ==
    \/ \E n \in Sizes, o \in AllocOracles : RMalloc(n, o)
    \/ \E n \in Sizes, o \in AllocOracles : RCalloc(n, o)
    \/ \E old \in Sizes, n \in Sizes, o \in ReallocOracles : RRealloc(old, n, o)
    \/ RFree

SpecRaw == Init /\ [][NextRaw]_vars

----------------------------------------------------------------------------
(* The buffer client: a program that owns up to two RStrings and calls the  *)
(* public methods.  from_bytes, from_str and from_rstr (clone, to_rstr) are *)
(* one macro body over s.as_ptr(), s.len(), as are the append_*, copy_* and *)
(* replace_* families: the source x is a slice or the other buffer's bytes. *)

\* the slices the client passes in: the sub-slices of the text 1, 2, .., MaxLen
Text == [k \in 1 .. MaxLen |-> k]
Slices == {SubSeq(Text, a, b) : a \in 1 .. MaxLen + 1, b \in 0 .. MaxLen}
Idx == (0 .. MaxIdx) \cup {UsizeMax - 1, UsizeMax}

\* the bytes [0, len) of the buffer lie inside its block
Readable(h, s) == len(s) = 0 \/ InBlock(h, as_ptr(s), len(s))

\* what a method can be given as its source: a slice, or another live buffer
\* (s.as_ptr(), s.len()); ok says whether those bytes can be read
Sources(i) ==
    {[x |-> sl, ok |-> TRUE] : sl \in Slices}
    \cup {[x |-> as_bytes(heap, strs[j]), ok |-> Readable(heap, strs[j])] :
             j \in {k \in StrSlots : k # i /\ strs[k].alive}}
\* a read outside every block is undefined behaviour
BadRead(s) == SR(Stop(Cur, "ub"), s)

RunningS == status = "running" /\ steps < MaxStrSteps
StepS == steps' = steps + 1 /\ UNCHANGED <<overflow_checks, zslot, rslot, list>>
FreeStr(i) == ~strs[i].alive /\ \A j \in StrSlots : j < i => strs[j].alive
Did(op, slot, a, b, x, out) ==
    [op |-> op, slot |-> slot, a |-> a, b |-> b, x |-> x, out |-> out]
\* the buffer the caller holds after a method returned (nothing after a panic or abort)
Put(i, r) == IF r.m.status = "running" THEN [strs EXCEPT ![i] = r.s] ELSE strs

SWithCapacity(i, n, o) ==
    /\ RunningS /\ FreeStr(i)
    /\ \E r \in {with_capacity(Cur, n, o)} :
        Commit(r.m) /\ strs' = Put(i, r) /\ last' = Did("with_capacity", i, n, 0, <<>>, <<>>)
    /\ StepS

SFrom(i, x, o) ==
    /\ RunningS /\ FreeStr(i)
    /\ \E r \in {IF x.ok THEN from_raw_data(Cur, x.x, Len(x.x), o) ELSE BadRead(NoStr)} :
        Commit(r.m) /\ strs' = Put(i, r) /\ last' = Did("from", i, 0, 0, x.x, <<>>)
    /\ StepS

SAppend(i, x, o) ==
    /\ RunningS /\ strs[i].alive
    /\ \E r \in {IF x.ok THEN append_raw_data(Cur, strs[i], x.x, Len(x.x), o) ELSE BadRead(strs[i])} :
        Commit(r.m) /\ strs' = Put(i, r) /\ last' = Did("append", i, 0, 0, x.x, <<>>)
    /\ StepS

SCopy(i, x, o) ==
    /\ RunningS /\ strs[i].alive
    /\ \E r \in {IF x.ok THEN copy_raw_data(Cur, strs[i], x.x, Len(x.x), o) ELSE BadRead(strs[i])} :
        Commit(r.m) /\ strs' = Put(i, r) /\ last' = Did("copy", i, 0, 0, x.x, <<>>)
    /\ StepS

SReplace(i, offset, x, o) ==
    /\ RunningS /\ strs[i].alive
    /\ \E r \in {IF x.ok THEN replace_raw_data(Cur, strs[i], offset, x.x, Len(x.x), o) ELSE BadRead(strs[i])} :
        Commit(r.m) /\ strs' = Put(i, r) /\ last' = Did("replace", i, offset, 0, x.x, <<>>)
    /\ StepS

SAppendPadding(i, value, count, o) ==
    /\ RunningS /\ strs[i].alive
    /\ \E r \in {append_padding(Cur, strs[i], value, count, o)} :
        Commit(r.m) /\ strs' = Put(i, r)
        /\ last' = Did("append_padding", i, value, count, <<>>, <<>>)
    /\ StepS

SSubRstr(i, j, start, end, o) ==
    /\ RunningS /\ strs[i].alive /\ FreeStr(j)
    /\ \E r \in {sub_rstr(Cur, strs[i], start, end, o)} :
        Commit(r.m) /\ strs' = Put(j, r) /\ last' = Did("sub_rstr", i, start, end, <<>>, j)
    /\ StepS

STrim(i, start, end) ==
    /\ RunningS /\ strs[i].alive
    /\ \E r \in {trim(Cur, strs[i], start, end)} :
        Commit(r.m) /\ strs' = Put(i, r) /\ last' = Did("trim", i, start, end, <<>>, <<>>)
    /\ StepS

SLtrim(i, start) ==
    /\ RunningS /\ strs[i].alive
    /\ \E r \in {ltrim(Cur, strs[i], start)} :
        Commit(r.m) /\ strs' = Put(i, r) /\ last' = Did("ltrim", i, start, 0, <<>>, <<>>)
    /\ StepS

SRtrim(i, end) ==
    /\ RunningS /\ strs[i].alive
    /\ \E r \in {rtrim(Cur, strs[i], end)} :
        Commit(r.m) /\ strs' = Put(i, r) /\ last' = Did("rtrim", i, end, 0, <<>>, <<>>)
    /\ StepS

STruncate(i, new_len) ==
    /\ RunningS /\ strs[i].alive
    /\ \E r \in {truncate(Cur, strs[i], new_len)} :
        Commit(r.m) /\ strs' = Put(i, r) /\ last' = Did("truncate", i, new_len, 0, <<>>, <<>>)
    /\ StepS

SClear(i) ==
    /\ RunningS /\ strs[i].alive
    /\ \E r \in {clear(Cur, strs[i])} :
        Commit(r.m) /\ strs' = Put(i, r) /\ last' = Did("clear", i, 0, 0, <<>>, <<>>)
    /\ StepS

SReserve(i, extra, o) ==
    /\ RunningS /\ strs[i].alive
    /\ \E r \in {reserve(Cur, strs[i], extra, o)} :
        Commit(r.m) /\ strs' = Put(i, r) /\ last' = Did("reserve", i, extra, 0, <<>>, <<>>)
    /\ StepS

SShrinkTo(i, min_capacity, o) ==
    /\ RunningS /\ strs[i].alive
    /\ \E r \in {shrink_to(Cur, strs[i], min_capacity, o)} :
        Commit(r.m) /\ strs' = Put(i, r)
        /\ last' = Did("shrink_to", i, min_capacity, 0, <<>>, <<>>)
    /\ StepS

SShrinkToFit(i, o) ==
    /\ RunningS /\ strs[i].alive
    /\ \E r \in {shrink_to_fit(Cur, strs[i], o)} :
        Commit(r.m) /\ strs' = Put(i, r) /\ last' = Did("shrink_to_fit", i, 0, 0, <<>>, <<>>)
    /\ StepS

\* the buffer goes out of scope
SDrop(i) ==
    /\ RunningS /\ strs[i].alive
    /\ Commit(drop(Cur, strs[i]))
    /\ strs' = [strs EXCEPT ![i] = NoStr]
    /\ last' = Did("drop", i, 0, 0, <<>>, <<>>)
    /\ StepS

\* s.to_bytes(): out is the vector returned, as its elements
SToBytes(i) ==
    /\ RunningS /\ strs[i].alive
    /\ Commit(IF Readable(heap, strs[i]) THEN Cur ELSE Stop(Cur, "ub"))
    /\ last' = Did("to_bytes", i, 0, 0, <<>>, VecElems(to_bytes(heap, strs[i])))
    /\ StepS /\ UNCHANGED strs

\* a.cmp(&b) and a == b
SCmp(i, j) ==
    /\ RunningS /\ strs[i].alive /\ strs[j].alive
    /\ Commit(IF Readable(heap, strs[i]) /\ Readable(heap, strs[j])
              THEN Cur ELSE Stop(Cur, "ub"))
    /\ last' = Did("cmp", i, 0, 0, <<>>,
                   <<cmp(heap, strs[i], strs[j]), eq(heap, strs[i], strs[j]), j>>)
    /\ StepS /\ UNCHANGED strs

NextStr ==
    \/ \E i \in StrSlots, n \in Idx, o \in AllocOracles : SWithCapacity(i, n, o)
    \/ \E i \in StrSlots, o \in AllocOracles : \E x \in Sources(i) : SFrom(i, x, o)
    \/ \E i \in StrSlots, o \in ReallocOracles : \E x \in Sources(i) : SAppend(i, x, o)
    \/ \E i \in StrSlots, o \in ReallocOracles : \E x \in Sources(i) : SCopy(i, x, o)
    \/ \E i \in StrSlots, offset \in Idx, o \in ReallocOracles :
         \E x \in Sources(i) : SReplace(i, offset, x, o)
    \/ \E i \in StrSlots, v \in {0}, count \in Idx, o \in ReallocOracles :
         SAppendPadding(i, v, count, o)
    \/ \E i \in StrSlots, j \in StrSlots, start \in Idx, end \in Idx, o \in AllocOracles :
         SSubRstr(i, j, start, end, o)
    \/ \E i \in StrSlots, start \in Idx, end \in Idx : STrim(i, start, end)
    \/ \E i \in StrSlots, start \in Idx : SLtrim(i, start)
    \/ \E i \in StrSlots, end \in Idx : SRtrim(i, end)
    \/ \E i \in StrSlots, n \in Idx : STruncate(i, n)
    \/ \E i \in StrSlots : SClear(i)
    \/ \E i \in StrSlots, extra \in Idx, o \in ReallocOracles : SReserve(i, extra, o)
    \/ \E i \in StrSlots, n \in Idx, o \in ReallocOracles : SShrinkTo(i, n, o)
    \/ \E i \in StrSlots, o \in ReallocOracles : SShrinkToFit(i, o)
    \/ \E i \in StrSlots : SDrop(i)
    \/ \E i \in StrSlots : SToBytes(i)
    \/ \E i \in StrSlots, j \in StrSlots : SCmp(i, j)

SpecStr == Init /\ [][NextStr]_vars

----------------------------------------------------------------------------
(* Properties of the tagged layer (SpecTagged) *)

Returned(op) == last.op = op /\ status = "running"

\* C1: for every request n, zmalloc(n) returns a non-null body pointer p and
\* a size s with s >= n, s a multiple of the pointer width, and
\* zmem_size_of(p) = s (n = 0 included).
C1_ZmallocContract ==
    Returned("zmalloc") =>
        /\ ~is_null(last.ptr)
        /\ last.size >= last.n
        /\ last.size % SYS_ALIGN_SIZE = 0
        /\ zmem_size_of(heap, last.ptr) = last.size

\* C2: zrealloc(p, n) of a live block of body size a returns a body whose
\* first min(a, round_up(n)) bytes are the bytes the body held before the
\* call, whether the host resized in place or relocated.
C2_ZreallocKeepsData ==
    [][(last'.op = "zrealloc" /\ status' = "running" /\ ~is_null(last'.inp)) =>
        LET a == zmem_size_of(heap, last'.inp)
            k == Min(a, size_of_sys_aligned(last'.n))
        IN  LoadRange(heap', last'.ptr, k) = LoadRange(heap, last'.inp, k)]_vars

\* C3: every live tagged block's header equals its body capacity: header +
\* header width is the size of the host block, and the body pointer is the
\* block's address + header width.
C3_HeaderIsCapacity ==
    status = "running" =>
        \A i \in ZSlots : ~is_null(zslot[i]) =>
            /\ zslot[i].o = ZMEM_HEADER_SIZE
            /\ heap[zslot[i].b].live
            /\ zmem_size_of(heap, zslot[i]) + ZMEM_HEADER_SIZE = heap[zslot[i].b].size

\* C4: the old size zrealloc passes to the host's realloc, and the size zfree
\* passes to the host's dealloc, is the full extent of the block: the size
\* with which the block was last obtained from the host.
C4_FullExtentPassed ==
    last.op \in {"zrealloc", "zfree"} =>
        \A k \in 1 .. Len(calls) :
            calls[k].fn \in {"realloc", "dealloc"} => calls[k].size = calls[k].actual

----------------------------------------------------------------------------
(* Properties of the raw layer (SpecRaw) *)

\* C5: realloc(null, old_size, new_size) with new_size > 0 behaves as
\* malloc(new_size) for every old_size: it returns a non-null pointer to a
\* freshly allocated block and the size new_size.
C5_ReallocNullAllocates ==
    (Returned("realloc") /\ is_null(last.inp) /\ last.n > 0) =>
        /\ ~is_null(last.ptr)
        /\ last.size = last.n
        /\ Len(calls) = 1 /\ calls[1].fn = "alloc" /\ calls[1].size = last.n
        /\ InBlock(heap, last.ptr, last.n)

HostSaidNull(k) ==
    /\ calls[k].fn \in {"alloc", "alloc_zeroed", "realloc"}
    /\ is_null(calls[k].res)

\* C6: when the host answers null to malloc, calloc or realloc, the call
\* runs handle_alloc_error with the layout asked for and the process ends;
\* nothing is returned to the caller.
C6_ExhaustionAborts ==
    \A k \in 1 .. Len(calls) : HostSaidNull(k) =>
        /\ status = "aborted"
        /\ handler = <<calls[k].new>>
        /\ is_null(last.ptr) /\ last.size = 0

C6_Witness ==
    /\ last.op = "realloc" /\ ~is_null(last.inp)
    /\ Len(calls) = 1 /\ HostSaidNull(1)
    /\ status = "aborted"

\* C7: malloc(0), calloc(0) and realloc(_, _, 0) are rejected fatally before
\* the host allocator is called, and return no pointer.
C7_ZeroSizeRejected ==
    (last.op \in {"malloc", "calloc", "realloc"} /\ last.n = 0) =>
        /\ status \in {"panicked", "aborted"}
        /\ calls = <<>>

----------------------------------------------------------------------------
(* Properties of the byte buffer *)

LiveStrs == {i \in StrSlots : strs[i].alive}

\* C8: whenever the program is running, every live buffer has length <=
\* capacity and a non-null data pointer, whatever constructor and whatever
\* sequence of append, copy, replace, append_padding, trim, ltrim, rtrim,
\* truncate, clear, reserve, shrink_to and shrink_to_fit calls produced it.
C8_LenLeCapNonNull ==
    status = "running" =>
        \A i \in LiveStrs : strs[i].len <= strs[i].cap /\ ~is_null(strs[i].data)

\* C9: the vector to_bytes() returns equals as_bytes() of the buffer, the
\* bytes [0, length); so from_bytes(b).to_bytes() = b.
C9_ToBytesIsAsBytes ==
    (status = "running" /\ last.op = "to_bytes") =>
        last.out = as_bytes(heap, strs[last.slot])

\* C10: the buffer from_bytes(b) / from_str(s) / from_rstr(r) returns has the
\* source's length, and its as_bytes() view is the source's bytes.
C10_FromCopiesSource ==
    (status = "running" /\ last.op = "from") =>
        /\ len(strs[last.slot]) = Len(last.x)
        /\ as_bytes(heap, strs[last.slot]) = last.x

\* C10 witness: the second buffer was built by from_rstr from the two bytes
\* of the first, in its own block
C10_Witness ==
    /\ status = "running" /\ last.op = "from" /\ last.slot = 2
    /\ len(strs[1]) = 2 /\ last.x = as_bytes(heap, strs[1])
    /\ as_bytes(heap, strs[2]) = last.x
    /\ Indet \notin {last.x[k] : k \in 1 .. 2}
    /\ as_ptr(strs[2]) # as_ptr(strs[1])

\* the method op has just returned on buffer slot i
Done(op) == last'.op = op /\ status' = "running"
\* content of buffer i before and after the step
Before(i) == as_bytes(heap, strs[i])
After(i) == as_bytes(heap', strs'[i])

\* C11: after append_bytes(x) (append_str, append_rstr) on a buffer with
\* content c the content is c followed by x and the length is len(c) + len(x),
\* also when the append reallocates.
C11_AppendIsConcat ==
    [][Done("append") =>
         /\ After(last'.slot) = Before(last'.slot) \o last'.x
         /\ len(strs'[last'.slot]) = len(strs[last'.slot]) + Len(last'.x)]_vars

\* C12: sub_rstr(start, end) returns a buffer whose content is
\* original[start .. min(end, length)) when start < min(end, length) and an
\* empty buffer otherwise; the original buffer is left unchanged.
C12_SubRstrIsSlice ==
    [][Done("sub_rstr") =>
         LET i == last'.slot
             e == Min(len(strs[i]), last'.b)
         IN  /\ After(last'.out) = IF last'.a < e THEN SubSeq(Before(i), last'.a + 1, e)
                                   ELSE <<>>
             /\ strs'[i] = strs[i]
             /\ After(i) = Before(i)]_vars

\* C12 witness: sub_rstr(1, end) with end beyond the length of a two-byte
\* buffer returned its second byte in another block
C12_Witness ==
    /\ status = "running" /\ last.op = "sub_rstr" /\ last.a = 1
    /\ len(strs[last.slot]) = 2 /\ last.b > 2
    /\ Indet \notin {as_bytes(heap, strs[last.slot])[k] : k \in 1 .. 2}
    /\ as_bytes(heap, strs[last.out]) = <<as_bytes(heap, strs[last.slot])[2]>>
    /\ as_ptr(strs[last.out]).b # as_ptr(strs[last.slot]).b

\* what replace_at(offset, x) should leave in a buffer whose content was c
Replaced(c, offset, x) ==
    [k \in 1 .. Max(Len(c), offset + Len(x)) |->
        IF k > offset /\ k <= offset + Len(x) THEN x[k - offset]
        ELSE IF k <= Len(c) THEN c[k]
        ELSE 0]

\* C13: replace_bytes(offset, x) (replace_str, replace_rstr) on a buffer of
\* length L leaves length max(L, offset + len(x)), the bytes
\* [offset, offset + len(x)) equal to x, the gap [L, offset) zero when
\* offset > L, and every other byte below L as it was, also when it
\* reallocates.
C13_ReplaceAt ==
    [][Done("replace") =>
         /\ len(strs'[last'.slot]) = Max(len(strs[last'.slot]), last'.a + Len(last'.x))
         /\ After(last'.slot) = Replaced(Before(last'.slot), last'.a, last'.x)]_vars

\* C14: trim(start, end) clamps end to the length; if start < end the
\* content becomes old[start .. end) and the length end - start; otherwise
\* length and content are unchanged.  ltrim(start) is trim(start, length).
C14_TrimIsSlice ==
    [][(Done("trim") \/ Done("ltrim")) =>
         LET i == last'.slot
             end == IF last'.op = "ltrim" THEN len(strs[i]) ELSE last'.b
             e == Min(len(strs[i]), end)
         IN  IF last'.a < e
             THEN /\ After(i) = SubSeq(Before(i), last'.a + 1, e)
                  /\ len(strs'[i]) = e - last'.a
             ELSE /\ After(i) = Before(i)
                  /\ len(strs'[i]) = len(strs[i])]_vars

\* C14 witness: trim(1, end) on the three bytes 1, 2, 1 moved the range [1, 3)
\* down onto [0, 2), which it overlaps
C14_Witness ==
    /\ status = "running" /\ last.op = "trim" /\ last.a = 1 /\ last.b >= 3
    /\ len(strs[last.slot]) = 2
    /\ LoadRange(heap, as_ptr(strs[last.slot]), 3) = <<2, 1, 1>>

\* lexicographic order of two byte sequences: the first position at which
\* they differ decides; if there is none the shorter one comes first
Lex(a, b) ==
    LET D == {k \in 1 .. Min(Len(a), Len(b)) : a[k] # b[k]} IN
    IF D # {}
    THEN LET k == CHOOSE d \in D : \A d2 \in D : d <= d2
         IN  IF a[k] < b[k] THEN "Less" ELSE "Greater"
    ELSE IF Len(a) < Len(b) THEN "Less"
    ELSE IF Len(a) > Len(b) THEN "Greater"
    ELSE "Equal"

\* C15: a.cmp(&b) is the lexicographic order of the two contents, and
\* a.cmp(&a) is Equal.
C15_CmpIsLexicographic ==
    (status = "running" /\ last.op = "cmp") =>
        /\ last.out[1] = Lex(as_bytes(heap, strs[last.slot]), as_bytes(heap, strs[last.out[3]]))
        /\ last.out[3] = last.slot => last.out[1] = "Equal"

\* C15 witness: the longer buffer 1, 2 was compared with the shorter buffer 2
\* and ordered first, by its first byte
C15_Witness ==
    /\ status = "running" /\ last.op = "cmp" /\ last.out[1] = "Less"
    /\ as_bytes(heap, strs[last.slot]) = <<1, 2>>
    /\ as_bytes(heap, strs[last.out[3]]) = <<2>>

LiveBlocks == {a \in Addrs : heap[a].live}

\* C16: every block a buffer owns is released exactly once.  While the
\* program runs, each live buffer owns one live host block (its data pointer
\* is the body of that block: no use after release, and the release in drop
\* is the first one), no two buffers own the same block, and every live host
\* block is owned by a live buffer: once every buffer is dropped none remains.
C16_BlocksOwnedOnce ==
    status = "running" =>
        /\ \A i \in LiveStrs :
              /\ as_ptr(strs[i]).b \in LiveBlocks
              /\ as_ptr(strs[i]).o = ZMEM_HEADER_SIZE
        /\ \A i, j \in LiveStrs : as_ptr(strs[i]).b = as_ptr(strs[j]).b => i = j
        /\ LiveBlocks = {as_ptr(strs[i]).b : i \in LiveStrs}

\* C16 witness: the last buffer was dropped after three calls and no host
\* block is left
C16_Witness ==
    /\ status = "running" /\ last.op = "drop" /\ steps = MaxStrSteps
    /\ LiveStrs = {} /\ LiveBlocks = {}

\* n rounded up to the pointer width (no wrap-around)
RoundUp(n) == ((n + ZMEM_ALIGN_SIZE - 1) \div ZMEM_ALIGN_SIZE) * ZMEM_ALIGN_SIZE

\* C17: reserve(extra) is exact.  If the available capacity is at least extra
\* it changes neither capacity nor storage; otherwise the capacity becomes
\* length + extra rounded up to the pointer width.  Either way available >=
\* extra afterwards and length and content are unchanged.  An append that has
\* to grow the buffer leaves the same exact capacity.
C17_ReserveIsExact ==
    [][/\ Done("reserve") =>
            LET i == last'.slot
                extra == last'.a
            IN  /\ IF strs[i].cap - strs[i].len >= extra
                   THEN strs'[i] = strs[i] /\ heap' = heap
                   ELSE strs'[i].cap = RoundUp(strs[i].len + extra)
                /\ strs'[i].cap - strs'[i].len >= extra
                /\ strs'[i].len = strs[i].len
                /\ After(i) = Before(i)
       /\ (Done("append") /\ strs[last'.slot].cap - strs[last'.slot].len < Len(last'.x)) =>
            strs'[last'.slot].cap = RoundUp(strs[last'.slot].len + Len(last'.x))]_vars

\* C18: shrink_to(min_cap) leaves capacity max(length, min_cap) rounded up to
\* the pointer width whenever min_cap < capacity; shrink_to_fit leaves
\* capacity length rounded up; neither increases the capacity, and neither
\* changes length or content.
C18_ShrinkIsExact ==
    [][/\ Done("shrink_to") =>
            LET i == last'.slot IN
            /\ last'.a < strs[i].cap =>
                   strs'[i].cap = RoundUp(Max(strs[i].len, last'.a))
            /\ strs'[i].cap <= strs[i].cap
            /\ strs'[i].len = strs[i].len
            /\ After(i) = Before(i)
       /\ Done("shrink_to_fit") =>
            LET i == last'.slot IN
            /\ strs'[i].cap = RoundUp(strs[i].len)
            /\ strs'[i].cap <= strs[i].cap
            /\ strs'[i].len = strs[i].len
            /\ After(i) = Before(i)]_vars

\* C19: truncate(new_len) sets the length to min(length, new_len), leaves the
\* first min(length, new_len) bytes as they were, and changes neither the
\* capacity nor the storage pointer (nor the storage).
C19_TruncateFrame ==
    [][Done("truncate") =>
         LET i == last'.slot
             n == Min(strs[i].len, last'.a)
         IN  /\ strs'[i].len = n
             /\ After(i) = SubSeq(Before(i), 1, n)
             /\ strs'[i].cap = strs[i].cap
             /\ strs'[i].data = strs[i].data
             /\ heap' = heap]_vars

\* C19 witness: truncate(1) shortened a two-byte buffer to its first byte
C19_Witness ==
    /\ status = "running" /\ last.op = "truncate" /\ last.a = 1
    /\ strs[last.slot].len = 1 /\ strs[last.slot].cap = 2
    /\ LoadRange(heap, as_ptr(strs[last.slot]), 2) = <<1, 2>>

\* C20: clear sets the length to 0 and leaves the capacity and the storage
\* pointer as they were; trim, ltrim and rtrim change neither the capacity nor
\* the storage pointer.
C20_ClearTrimFrame ==
    [][/\ Done("clear") => strs'[last'.slot].len = 0
       /\ (Done("clear") \/ Done("trim") \/ Done("ltrim") \/ Done("rtrim")) =>
            /\ strs'[last'.slot].cap = strs[last'.slot].cap
            /\ strs'[last'.slot].data = strs[last'.slot].data
            /\ \A a \in Addrs : heap'[a].live = heap[a].live /\ heap'[a].size = heap[a].size]_vars

\* C20 witness: clear emptied a two-byte buffer whose storage is still there
C20_Witness ==
    /\ status = "running" /\ last.op = "clear"
    /\ strs[last.slot].len = 0 /\ strs[last.slot].cap = 2
    /\ LoadRange(heap, as_ptr(strs[last.slot]), 2) = <<1, 2>>

\* C21: copy_bytes(x) (copy_str, copy_rstr) is assignment: whatever the
\* buffer held before, afterwards its length is len(x) and its content is x.
C21_CopyIsAssign ==
    (status = "running" /\ last.op = "copy") =>
        /\ len(strs[last.slot]) = Len(last.x)
        /\ as_bytes(heap, strs[last.slot]) = last.x

\* C21 witness: the byte 2 was assigned to a buffer that held the two bytes 1, 2
C21_Witness ==
    /\ status = "running" /\ last.op = "copy" /\ last.x = <<2>>
    /\ len(strs[last.slot]) = 1
    /\ LoadRange(heap, as_ptr(strs[last.slot]), 2) = <<2, 2>>

\* C22: the buffer that from_rstr (clone, to_rstr) or sub_rstr returns has
\* the source's bytes in a block that was not allocated before the call and
\* that no other buffer uses; and no call on one buffer (mutation or drop)
\* changes the length or the content of another buffer.
C22_CopiesAreIndependent ==
    [][status' = "running" =>
         /\ last'.op \in {"from", "sub_rstr"} =>
              LET k == IF last'.op = "from" THEN last'.slot ELSE last'.out
                  b == as_ptr(strs'[k]).b
              IN  /\ b \in Addrs /\ ~heap[b].live /\ heap'[b].live
                  /\ as_ptr(strs'[k]).o = ZMEM_HEADER_SIZE
                  /\ \A j \in StrSlots \ {k} : strs'[j].alive => as_ptr(strs'[j]).b # b
                  /\ last'.op = "from" => After(k) = last'.x
         /\ \A j \in StrSlots :
              (strs[j].alive /\ j # last'.slot) =>
                  strs'[j] = strs[j] /\ After(j) = Before(j)]_vars

\* C22 witness: of two buffers holding 1, 2 the first was dropped and the
\* second still holds 1, 2
C22_Witness ==
    /\ status = "running" /\ last.op = "drop" /\ last.slot = 1
    /\ ~strs[1].alive /\ strs[2].alive
    /\ as_bytes(heap, strs[2]) = <<1, 2>>

----------------------------------------------------------------------------
(* The alignment client: one call of size_of_aligned(size, align) with a   *)
(* power-of-two align.  size + (align - 1) panics on overflow when overflow *)
(* checks are on and wraps when they are off.                               *)

AlignSizes == (0 .. MaxAlignArg) \cup ((UsizeMax - MaxAlignArg) .. UsizeMax)
Aligns == {2 ^ e : e \in 0 .. MaxAlignExp}

SizeOfAligned(size, align) ==
    /\ status = "running" /\ steps = 0
    /\ status' = IF AddPanics(size, align - 1) THEN "panicked" ELSE "running"
    /\ last' = [op |-> "size_of_aligned", size |-> size, align |-> align,
                r |-> size_of_aligned(size, align)]
    /\ steps' = 1
    /\ UNCHANGED <<heap, calls, handler, overflow_checks, zslot, rslot, strs, list>>

NextAlign == \E size \in AlignSizes, align \in Aligns : SizeOfAligned(size, align)

SpecAlign == Init /\ [][NextAlign]_vars

\* C23: for every size and every power-of-two align, r = size_of_aligned(size,
\* align) is a multiple of align with size <= r < size + align, over the whole
\* range of the machine word.
C23_AlignedSizeBounds ==
    (status = "running" /\ last.op = "size_of_aligned") =>
        /\ last.r % last.align = 0
        /\ last.r >= last.size
        /\ last.r < last.size + last.align

----------------------------------------------------------------------------
(* Further properties of the tagged layer (SpecTagged) and of the raw      *)
(* layer (SpecRaw)                                                          *)

\* C24: for a live tagged block p and any new_n, zrealloc(p, new_n) returns a
\* non-null body pointer and the size s = new_n rounded up to the pointer
\* width, and zmem_size_of of the returned pointer is s.
C24_ZreallocSize ==
    (Returned("zrealloc") /\ ~is_null(last.inp)) =>
        /\ ~is_null(last.ptr)
        /\ last.size = RoundUp(last.n)
        /\ zmem_size_of(heap, last.ptr) = last.size

\* the null-pointer client: the tagged-layer client, which also asks for the
\* size of what it holds (null included) and hands null to the raw free
ZSizeOf(i) ==
    /\ Running
    /\ Commit(IF zmem_size_of(heap, zslot[i]) < 0 THEN Stop(Cur, "ub") ELSE Cur)
    /\ last' = Called("zmem_size_of", i, 0, 0, zslot[i],
                      Ret(Cur, zslot[i], zmem_size_of(heap, zslot[i])))
    /\ Step /\ UNCHANGED <<zslot, rslot, strs>>

FreeNull(n) ==
    /\ Running
    /\ \E m \in {free(Cur, Null, n)} :
        /\ Commit(m)
        /\ last' = Called("free", 0, n, 0, Null, Ret(m, Null, 0))
    /\ Step /\ UNCHANGED <<zslot, rslot, strs>>

NextNull ==
    \/ NextTagged
    \/ \E i \in ZSlots : ZSizeOf(i)
    \/ \E n \in Sizes : FreeNull(n)

SpecNull == Init /\ [][NextNull]_vars

\* C25: a null pointer is never dereferenced or passed to the host:
\* zmem_size_of(null) is 0; zfree(null) and free(null, size) change nothing;
\* zrealloc(null, n) does what zmalloc(n) does, and when it returns it returns
\* a non-null pointer, the size n rounded up, and a block whose header is
\* that size.
C25_NullIsSafe ==
    [][is_null(last'.inp) =>
         /\ last'.op = "zmem_size_of" => status' = "running" /\ last'.size = 0
         /\ last'.op \in {"zfree", "free"} =>
              status' = "running" /\ heap' = heap /\ calls' = <<>>
         /\ last'.op = "zrealloc" =>
              /\ status' # "ub"
              /\ \A k \in 1 .. Len(calls') : calls'[k].fn = "alloc"
              /\ \E o \in AllocOracles :
                    /\ zmalloc(Cur, last'.n, o).m.heap = heap'
                    /\ zmalloc(Cur, last'.n, o).m.status = status'
                    /\ zmalloc(Cur, last'.n, o).size = last'.size
              /\ status' = "running" =>
                    /\ ~is_null(last'.ptr)
                    /\ last'.size = RoundUp(last'.n)
                    /\ zmem_size_of(heap', last'.ptr) = last'.size]_vars

C27_AppendPaddingFills ==
    [][Done("append_padding") =>
         /\ len(strs'[last'.slot]) = len(strs[last'.slot]) + last'.b
         /\ After(last'.slot) =
                Before(last'.slot) \o [k \in 1 .. last'.b |-> last'.a]]_vars

----------------------------------------------------------------------------
(* The list client: a program that holds one RList, starting from           *)
(* RList::new(), and calls its public methods.                              *)

ListData == 1 .. MaxByte
ListIdx == (0 .. MaxListLen) \cup {UsizeMax}
CanGrow == list.len < MaxListLen /\ NewId(list) # None

\* the method returned r: the client holds the list it left (nothing changes
\* for it after a panic)
RanOn(r, op, a, b, x) ==
    /\ list' = IF r.st = "running" THEN renumber(rc_drop(r.l)) ELSE list
    /\ status' = r.st
    /\ last' = Did(op, 0, a, b, x, r.out)
    /\ UNCHANGED <<heap, calls, handler, overflow_checks, zslot, rslot, strs, steps>>

Ran(r, op, idx, x) == RanOn(r, op, idx, 0, x)

LPushFront(x) ==
    /\ status = "running" /\ CanGrow
    /\ Ran(LR(push_front_node(list, NewId(list), x), <<>>, "running"), "push_front", 0, <<x>>)

LPushBack(x) ==
    /\ status = "running" /\ CanGrow
    /\ Ran(LR(push_back_node(list, NewId(list), x), <<>>, "running"), "push_back", 0, <<x>>)

LPopFront == status = "running" /\ Ran(pop_front_node(list), "pop_front", 0, <<>>)

LPopBack == status = "running" /\ Ran(pop_back_node(list), "pop_back", 0, <<>>)

LInsertBefore(idx, x) ==
    /\ status = "running" /\ CanGrow
    /\ Ran(insert_before(list, NewId(list), idx, x), "insert_before", idx, <<x>>)

LInsertAfter(idx, x) ==
    /\ status = "running" /\ CanGrow
    /\ Ran(insert_after(list, NewId(list), idx, x), "insert_after", idx, <<x>>)

LRemove(idx) == status = "running" /\ Ran(remove(list, idx), "remove", idx, <<>>)

NextDeque ==
    \/ \E x \in ListData : LPushFront(x)
    \/ \E x \in ListData : LPushBack(x)
    \/ LPopFront
    \/ LPopBack

SpecDeque == Init /\ [][NextDeque]_vars

LRange(start, end) == status = "running" /\ RanOn(range(list, start, end), "range", start, end, <<>>)

LTrim(start, end) == status = "running" /\ RanOn(rlist_trim(list, start, end), "trim", start, end, <<>>)

LSet(idx, x) == status = "running" /\ Ran(set(list, idx, x), "set", idx, <<x>>)

NextList ==
    \/ NextDeque
    \/ \E idx \in ListIdx, x \in ListData : LInsertBefore(idx, x)
    \/ \E idx \in ListIdx, x \in ListData : LInsertAfter(idx, x)
    \/ \E idx \in ListIdx : LRemove(idx)

SpecList == Init /\ [][NextList]_vars

\* a client that uses every method, on a list it grows (by pushes and
\* inserts) only while its length is below MaxShortList
ShortIdx == (0 .. MaxShortList) \cup {UsizeMax}
RangeIdx == (0 .. MaxIdx) \cup {UsizeMax}
ShortData == IF list.len < MaxShortList THEN ListData ELSE {}
NextListAll ==
    \/ \E x \in ShortData : LPushFront(x)
    \/ \E x \in ShortData : LPushBack(x)
    \/ LPopFront
    \/ LPopBack
    \/ \E idx \in ShortIdx, x \in ShortData : LInsertBefore(idx, x)
    \/ \E idx \in ShortIdx, x \in ShortData : LInsertAfter(idx, x)
    \/ \E idx \in ShortIdx : LRemove(idx)
    \/ \E idx \in ShortIdx, x \in ListData : LSet(idx, x)
    \/ \E start \in RangeIdx, end \in RangeIdx : LRange(start, end)
    \/ \E start \in RangeIdx, end \in RangeIdx : LTrim(start, end)

SpecListAll == Init /\ [][NextListAll]_vars

----------------------------------------------------------------------------
(* Properties of the list *)

\* C28: over pushes and pops in any order the list is a double-ended queue:
\* push_front / push_back add the element at that end, pop_front / pop_back
\* return and take away the element at that end, and a pop on an empty list
\* returns None and leaves an empty list (head and tail None, length 0).
C28_ListIsDeque ==
    [][LET old == to_vec(list)
           now == to_vec(list')
       IN  /\ Done("push_front") => now = last'.x \o old
           /\ Done("push_back") => now = old \o last'.x
           /\ Done("pop_front") =>
                IF old = <<>> THEN last'.out = <<>> /\ list' = list
                ELSE last'.out = Some(Head(old)) /\ now = Tail(old)
           /\ Done("pop_back") =>
                IF old = <<>> THEN last'.out = <<>> /\ list' = list
                ELSE /\ last'.out = Some(old[Len(old)])
                     /\ now = SubSeq(old, 1, Len(old) - 1)
           /\ status' = "running"
           /\ list'.len = Len(now)
           /\ (list'.head = None) = (now = <<>>)
           /\ (list'.tail = None) = (now = <<>>)]_vars

\* C28 witness: a pop at the back returned an element of a list built at both
\* ends, and elements are left
C28_Witness ==
    /\ status = "running" /\ last.op = "pop_back" /\ last.out # <<>>
    /\ Len(to_vec(list)) >= 2 /\ to_vec(list)[1] # to_vec(list)[2]

\* C29: for idx < len, insert_before(idx, x) puts x at position idx and
\* insert_after(idx, x) puts it at position idx + 1: get returns Some(x)
\* there, the other elements keep their order around it, and len grows by 1.
C29_InsertPlaces ==
    [][((Done("insert_before") \/ Done("insert_after")) /\ last'.a < list.len) =>
         LET old == to_vec(list)
             pos == IF last'.op = "insert_before" THEN last'.a ELSE last'.a + 1
         IN  /\ pos <= Len(old)
             /\ to_vec(list') = SubSeq(old, 1, pos) \o last'.x \o SubSeq(old, pos + 1, Len(old))
             /\ get(list', pos) = last'.x
             /\ list'.len = list.len + 1]_vars

\* C30: for idx < len, remove(idx) returns Some of the element at position
\* idx, and to_vec afterwards is the previous sequence without that position.
C30_RemoveDeletes ==
    [][(Done("remove") /\ last'.a < list.len) =>
         LET old == to_vec(list)
         IN  /\ last'.a < Len(old)
             /\ last'.out = Some(old[last'.a + 1])
             /\ to_vec(list') = SubSeq(old, 1, last'.a) \o SubSeq(old, last'.a + 2, Len(old))]_vars

\* C31: trim(start .. end) with start <= end leaves the elements that were at
\* positions [start, min(end, len)) in their order, and range(start .. end)
\* returns those elements and leaves the list as it was, in every state the
\* public methods reach.
C31_TrimAndRange ==
    [][(last'.op \in {"trim", "range"} /\ last'.a <= last'.b) =>
         LET old == to_vec(list)
             e == Min(last'.b, Len(old))
             kept == IF last'.a < e THEN SubSeq(old, last'.a + 1, e) ELSE <<>>
         IN  /\ status' = "running"
             /\ last'.op = "trim" => to_vec(list') = kept
             /\ last'.op = "range" => last'.out = kept /\ list' = list]_vars

\* the nodes reached from head through next
Chain(l) ==
    LET RECURSIVE chain(_, _)
        chain(id, fuel) ==
            IF id = None \/ fuel = 0 THEN <<>>
            ELSE <<id>> \o chain(l.node[id].next, fuel - 1)
    IN  chain(l.head, MaxListLen)

\* C32: after any sequence of list operations len() is the number of nodes
\* reachable from head, is_empty() holds exactly when len() = 0, and head is
\* None exactly when tail is None.
C32_LenCountsNodes ==
    status = "running" =>
        /\ rlist_len(list) = Len(Chain(list))
        /\ rlist_is_empty(list) = (rlist_len(list) = 0)
        /\ (list.head = None) = (list.tail = None)

\* C33: for idx < len, set(idx, v) returns Some of the value that was at
\* position idx, get(idx) is Some(v) afterwards, and every other position
\* and len are unchanged; for idx >= len it returns None and changes nothing.
C33_SetReplaces ==
    [][Done("set") =>
         LET old == to_vec(list)
             idx == last'.a
         IN  IF idx < list.len
             THEN /\ idx < Len(old)
                  /\ last'.out = Some(old[idx + 1])
                  /\ get(list', idx) = last'.x
                  /\ to_vec(list') = [old EXCEPT ![idx + 1] = last'.x[1]]
                  /\ list'.len = list.len
             ELSE last'.out = <<>> /\ list' = list]_vars

\* C34: remove(idx) with idx >= len, on an empty list too, returns None
\* without a panic or an overflow and leaves the list unchanged.
C34_RemoveOutOfRange ==
    [][(last'.op = "remove" /\ last'.a >= list.len) =>
         /\ status' = "running"
         /\ last'.out = <<>>
         /\ list' = list
         /\ list.len - 1 >= 0     \* self.len - 1 stays in usize
         ]_vars

----------------------------------------------------------------------------
(* Further properties of the buffer *)

\* C35: whatever the arguments (start, end or offset past the length, sums
\* past the machine word), no buffer operation reads or writes a byte
\* outside the block of its buffer: an access outside a live block is
\* undefined behaviour, and no operation of the buffer client runs into it.
C35_AccessInBlock == status # "ub"

\* C36: in every reachable state the capacity of a live buffer is the size
\* stored in the header of its block (zmem_size_of of its data pointer) and
\* a multiple of the pointer width; with_capacity(n) returns length 0 and
\* capacity n rounded up to the pointer width.
C36_CapIsHeaderSize ==
    status = "running" =>
        /\ \A i \in LiveStrs :
              /\ strs[i].cap = zmem_size_of(heap, strs[i].data)
              /\ strs[i].cap % size_of_usize = 0
        /\ last.op = "with_capacity" =>
              /\ strs[last.slot].len = 0
              /\ strs[last.slot].cap = RoundUp(last.a)

\* C37: replace at offset with x only ever grows the buffer: the capacity
\* after the call is at least offset + len(x) and not smaller than the
\* capacity before the call.
C37_ReplaceOnlyGrows ==
    [][Done("replace") =>
         /\ strs'[last'.slot].cap >= last'.a + Len(last'.x)
         /\ strs'[last'.slot].cap >= strs[last'.slot].cap]_vars

\* the ordering seen from the other side
Reverse(c) == IF c = "Less" THEN "Greater" ELSE IF c = "Greater" THEN "Less" ELSE "Equal"

\* C38: equality and ordering agree and ignore capacity: a == b exactly when
\* a and b have the same length and the same bytes, exactly when a.cmp(&b) is
\* Equal; and a.cmp(&b) is the reverse of b.cmp(&a).
C38_EqAgreesWithCmp ==
    (status = "running" /\ last.op = "cmp") =>
        LET a == strs[last.slot]
            b == strs[last.out[3]]
        IN  /\ last.out[2] = (len(a) = len(b) /\ as_bytes(heap, a) = as_bytes(heap, b))
            /\ last.out[2] = (last.out[1] = "Equal")
            /\ cmp(heap, b, a) = Reverse(last.out[1])
            /\ eq(heap, b, a) = last.out[2]

\* C38 witness: two empty buffers of different capacity were compared and
\* found equal
C38_Witness ==
    /\ status = "running" /\ last.op = "cmp" /\ last.out[2]
    /\ last.slot # last.out[3]
    /\ strs[last.slot].cap # strs[last.out[3]].cap

====
